---- MODULE Spec2Model ----
(***************************************************************************)
(* The two arcade games of the Space Exploration site, SpaceJump ("Pixel   *)
(* Rocket", src/src/pages/games/SpaceJump.tsx) and SpaceRace ("Cosmic      *)
(* Racer", src/unnamed/part_003), as one state machine.                    *)
(*                                                                         *)
(* A game view is a React function component.  Its state cells (useState)  *)
(* are modelled by their latest queued value; the value a running effect's *)
(* closures captured at the last commit is kept beside it (loopGameOver,   *)
(* committed).  A setState made inside an animation-frame or timer         *)
(* callback is only queued: the re-render and the effect cleanup / re-run  *)
(* it causes                                                               *)
(* are a later task (the Commit actions), and a frame callback that was    *)
(* already registered may run first.  JavaScript runs one task at a time:  *)
(* phase follows the position inside the frame callback, and every other   *)
(* action waits for phase = "idle".                                        *)
(*                                                                         *)
(* Coordinates are stored in tenths of a pixel (Px), which keeps           *)
(* x + size/2 - BULLET_SIZE/2, speed * 0.7 and size * 0.7 / 2 integers.    *)
(***************************************************************************)
EXTENDS Integers, Sequences, FiniteSets

VARIABLES
    view,                \* which component is mounted: "jump", "race", a page, "none"
    phase,               \* position inside the running frame callback
    raf,                 \* a frame callback is registered (animationFrameId is live)
    now,                 \* Date.now() as read by the running / last frame
    score,               \* useState score
    gameOver,            \* useState gameOver
    loopGameOver,        \* gameOver as captured by the registered gameLoop closure
    keys,                \* keys.current
    player,              \* playerRef.current
    enemies,             \* enemiesRef.current
    asteroids,           \* asteroidsRef.current
    coins,               \* coinsRef.current
    bullets,             \* bulletsRef.current
    enemyBullets,        \* enemyBulletsRef.current
    lastPlayerShotTime,  \* lastPlayerShotTime.current
    lastEnemySpawn,      \* lastEnemySpawn.current
    lastAsteroidSpawn,   \* lastAsteroidSpawn.current
    lastCoinSpawn,       \* lastCoinSpawn.current
    canvas,              \* what the last render call drew
    keyEvents,           \* input events (key presses, theme clicks) delivered so far
                         \* (bounds the exploration)
    calls,               \* per call site of an external endpoint: how its last request
                         \* stands
    storage,             \* localStorage: the cache entries and the saved permission status
    home,                \* the state cells of Home that the cache and geolocation write
    chat,                \* the chat widget of Home: chatMessages and the requests in flight
    isPlaying,           \* SpaceRace: useState isPlaying
    countdown,           \* SpaceRace: useState countdown (NULL, or 3..0)
    winner,              \* SpaceRace: useState winner
    darkMode,            \* SpaceRace: useState darkMode
    gameTime,            \* SpaceRace: useState gameTime
    committed,           \* SpaceRace: the state values of the last commit, which the
                         \* effects' closures and the key handlers captured
    playerRacer,         \* SpaceRace: playerRacerRef.current
    aiRacers,            \* SpaceRace: aiRacersRef.current
    blocks,              \* SpaceRace: blocksRef.current
    loop,                \* SpaceRace: the locals of the running game effect
                         \* (lastTime, boostActive, boostStartTime, boostCooldown, startTime)
    timers               \* SpaceRace: the pending setInterval / setTimeout callbacks

jumpRefs == <<player, enemies, asteroids, coins, bullets, enemyBullets>>
jumpTimes == <<lastPlayerShotTime, lastEnemySpawn, lastAsteroidSpawn, lastCoinSpawn>>
raceState == <<isPlaying, countdown, winner, darkMode, gameTime>>
raceRefs == <<playerRacer, aiRacers, blocks>>
raceVars == <<isPlaying, countdown, winner, darkMode, gameTime, committed, playerRacer, aiRacers,
              blocks, loop, timers>>
pageVars == <<calls, storage, home, chat>>
vars == <<view, phase, raf, now, score, gameOver, loopGameOver, keys, player, enemies,
          asteroids, coins, bullets, enemyBullets, lastPlayerShotTime, lastEnemySpawn,
          lastAsteroidSpawn, lastCoinSpawn, canvas, keyEvents, calls, storage, home, chat,
          isPlaying,
          countdown, winner, darkMode, gameTime, committed, playerRacer, aiRacers,
          blocks, loop, timers>>

----------------------------------------------------------------------------
(* Bounds of the exploration *)

\* Date.now() when the view mounts; it exceeds every interval, as the epoch time does
StartNow == 3000
\* frames are explored while Date.now() <= MaxNow
MaxNow == 7000
\* milliseconds between two frame callbacks (a slow or stalled tab)
FrameDts == {500, 2500}
\* key presses and theme clicks are explored up to this many
MaxKeyEvents == 1

----------------------------------------------------------------------------
(* SpaceJump: constants (pixels, milliseconds) *)

Px(v) == 10 * v

GAME_WIDTH == 200
GAME_HEIGHT == 112
PLAYER_SIZE == 60
ENEMY_SIZE == 40
ASTEROID_SIZE == 50
COIN_SIZE == 30
BULLET_SIZE == 5
SPAWN_INTERVAL_ENEMY == 1500
SPAWN_INTERVAL_ASTEROID == 800
SPAWN_INTERVAL_COIN == 2000
ENEMY_HEALTH == 2
ENEMY_SHOOT_INTERVAL == 2000
PLAYER_SHOOT_INTERVAL == 200
PLAYER_SPEED == 5
COIN_SCORE == 1
KILL_SCORE == 3

Max(a, b) == IF a > b THEN a ELSE b
Min(a, b) == IF a < b THEN a ELSE b

\* Math.random() * (GAME_WIDTH - size): the draws explored, per category
EnemyXs == {Px(70), Px(120)}
AsteroidXs == {Px(75), Px(149)}
CoinXs == {Px(80)}

NoKeys == [left |-> FALSE, right |-> FALSE]
InitPlayer == [x |-> Px(GAME_WIDTH) \div 2 - Px(PLAYER_SIZE) \div 2,
               y |-> Px(GAME_HEIGHT) - Px(PLAYER_SIZE) - Px(10),
               size |-> Px(PLAYER_SIZE), speed |-> Px(PLAYER_SPEED)]

----------------------------------------------------------------------------
(* SpaceJump: the pure steps of updateGame *)

\* a variant of checkCollision without its last comparison: not symmetric, C10_Symmetric
\* rejects it
checkCollision_NoBottomEdge(obj1, obj2) ==
    /\ obj1.x < obj2.x + obj2.size
    /\ obj1.x + obj1.size > obj2.x
    /\ obj1.y < obj2.y + obj2.size

checkCollision(obj1, obj2) ==
    /\ obj1.x < obj2.x + obj2.size
    /\ obj1.x + obj1.size > obj2.x
    /\ obj1.y < obj2.y + obj2.size
    /\ obj1.y + obj1.size > obj2.y

RECURSIVE MapSeq(_, _)
MapSeq(F(_), s) == IF s = <<>> THEN <<>> ELSE <<F(Head(s))>> \o MapSeq(F, Tail(s))

Some(s, P(_)) == \E i \in 1..Len(s) : P(s[i])

\* array.filter((_, i) => i !== idx), idx counted from 0
FilterNotIndex(s, idx) ==
    IF idx + 1 \in 1..Len(s)
    THEN SubSeq(s, 1, idx) \o SubSeq(s, idx + 2, Len(s))
    ELSE s

MovePlayerX(p, k) ==
    LET x1 == IF k.left THEN p.x - p.speed ELSE p.x
        x2 == IF k.right THEN x1 + p.speed ELSE x1
    IN Max(0, Min(Px(GAME_WIDTH) - p.size, x2))

PlayerBullet(p) ==
    [x |-> p.x + p.size \div 2 - Px(BULLET_SIZE) \div 2, y |-> p.y,
     size |-> Px(BULLET_SIZE), speed |-> Px(-10)]

EnemyBullet(e) ==
    [x |-> e.x + e.size \div 2 - Px(BULLET_SIZE) \div 2, y |-> e.y + e.size,
     size |-> Px(BULLET_SIZE), speed |-> Px(5)]

EnemyShoots(e, t) == t - e.lastShotTime > ENEMY_SHOOT_INTERVAL

MoveDown(o) == [o EXCEPT !.y = o.y + o.speed]
InsideBottom(o) == o.y < Px(GAME_HEIGHT)
InsideTop(o) == o.y > 0

\* updateEnemies: the enemies after the map and the filter
updateEnemies(es, t) ==
    LET Step(e) == IF EnemyShoots(e, t)
                   THEN [e EXCEPT !.y = e.y + e.speed, !.lastShotTime = t]
                   ELSE [e EXCEPT !.y = e.y + e.speed]
    IN SelectSeq(MapSeq(Step, es), InsideBottom)

\* updateEnemies: the bullets the map appends, in enemy order
RECURSIVE ShotsOf(_, _)
ShotsOf(es, t) ==
    IF es = <<>> THEN <<>>
    ELSE (IF EnemyShoots(Head(es), t) THEN <<EnemyBullet(Head(es))>> ELSE <<>>)
         \o ShotsOf(Tail(es), t)

updateFalling(os) == SelectSeq(MapSeq(MoveDown, os), InsideBottom)
updateBullets(bs) == SelectSeq(MapSeq(MoveDown, bs), InsideTop)

\* a variant of PlayerHit that leaves the enemy bullets out: C9_OverlapEndsGame rejects it
PlayerHit_NoEnemyBullets(p, es, as, ebs) ==
    LET Hits(o) == checkCollision(p, o)
    IN Some(es, Hits) \/ Some(as, Hits)

\* checkCollisions, first test: the player against enemies, asteroids, enemy bullets
PlayerHit(p, es, as, ebs) ==
    LET Hits(o) == checkCollision(p, o)
    IN Some(es, Hits) \/ Some(as, Hits) \/ Some(ebs, Hits)

\* a variant of the coin filter that keeps every coin: C7_CoinPickup rejects it
CoinsKept_All(p, cs) == cs

\* checkCollisions, the coin filter
CoinsKept(p, cs) == LET Misses(c) == ~checkCollision(p, c) IN SelectSeq(cs, Misses)
CoinsTaken(p, cs) == Len(cs) - Len(CoinsKept(p, cs))

\* a variant of MapEnemies that keeps an enemy whose health has reached 0:
\* C6_HitsAndKills rejects it
RECURSIVE MapEnemies_KeepsDead(_, _, _)
MapEnemies_KeepsDead(bullet, bulletIdx, r) ==
    IF r.todo = <<>> THEN r
    ELSE LET enemy == Head(r.todo)
             updatedEnemy == [enemy EXCEPT !.health = enemy.health - 1]
         IN IF checkCollision(bullet, enemy)
            THEN MapEnemies_KeepsDead(bullet, bulletIdx,
                    [todo |-> Tail(r.todo),
                     done |-> Append(r.done, updatedEnemy),
                     bullets |-> FilterNotIndex(r.bullets, bulletIdx),
                     score |-> IF updatedEnemy.health <= 0 THEN r.score + KILL_SCORE
                               ELSE r.score])
            ELSE MapEnemies_KeepsDead(bullet, bulletIdx,
                    [r EXCEPT !.todo = Tail(r.todo), !.done = Append(r.done, enemy)])

\* one bullet's enemiesRef.current.map(...).filter(...): r holds enemiesRef.current
\* still to map (todo), the mapped enemies kept so far (done), bulletsRef.current
\* and the score
RECURSIVE MapEnemies(_, _, _)
MapEnemies(bullet, bulletIdx, r) ==
    IF r.todo = <<>> THEN r
    ELSE LET enemy == Head(r.todo)
             updatedEnemy == [enemy EXCEPT !.health = enemy.health - 1]
         IN IF checkCollision(bullet, enemy)
            THEN MapEnemies(bullet, bulletIdx,
                    [todo |-> Tail(r.todo),
                     done |-> IF updatedEnemy.health <= 0 THEN r.done
                              ELSE Append(r.done, updatedEnemy),
                     bullets |-> FilterNotIndex(r.bullets, bulletIdx),
                     score |-> IF updatedEnemy.health <= 0 THEN r.score + KILL_SCORE
                               ELSE r.score])
            ELSE MapEnemies(bullet, bulletIdx,
                    [r EXCEPT !.todo = Tail(r.todo), !.done = Append(r.done, enemy)])

\* bulletsRef.current.forEach((bullet, bulletIdx) => ...): arr is the array forEach
\* was called on, i the next index (from 0); es, bs, sc the refs and score so far
RECURSIVE ForEachBullet(_, _, _, _, _)
ForEachBullet(arr, i, es, bs, sc) ==
    IF i >= Len(arr) THEN [enemies |-> es, bullets |-> bs, score |-> sc]
    ELSE LET r == MapEnemies(arr[i + 1], i,
                             [todo |-> es, done |-> <<>>, bullets |-> bs, score |-> sc])
         IN ForEachBullet(arr, i + 1, r.done, r.bullets, r.score)

BulletHits(es, bs, sc) == ForEachBullet(bs, 0, es, bs, sc)

\* renderGame: what is drawn, in drawing order, from ctx.clearRect on (the stars keep
\* their places)
renderGame ==
    <<[kind |-> "clear", at |-> <<>>], [kind |-> "stars", at |-> <<>>],
      [kind |-> "player", at |-> <<player>>], [kind |-> "enemies", at |-> enemies],
      [kind |-> "asteroids", at |-> asteroids], [kind |-> "coins", at |-> coins],
      [kind |-> "bullets", at |-> bullets], [kind |-> "enemyBullets", at |-> enemyBullets]>>

----------------------------------------------------------------------------
(* SpaceRace: constants and pure steps.  difficulty stays "medium", its       *)
(* initial value.                                                            *)

NULL == -1
RACE_GAME_WIDTH == 600
RACE_GAME_HEIGHT == 120
RACE_DISTANCE == RACE_GAME_HEIGHT * 5
RACER_SIZE == 70
BLOCK_SIZE == 60
NUM_AI == 5
FINISH_LINE_Y == 100
NUM_BLOCKS == 20
BOOST_DURATION == 2000
BOOST_COOLDOWN == 5000
RACER_SPEED == 5
WIN_SCORE == 6

\* frames are explored while the frame timestamp is <= RaceMaxNow
RaceMaxNow == 10000
\* milliseconds between two frame callbacks of the race
RaceFrameDts == {500}

aiNames == <<"Orbiter", "Invader", "Satellite", "Guardians", "Star Cruiser">>

\* speed: 3 + Math.random() * 1.5, per AI racer: the draws explored (pixels per frame)
AiSpeedDraws == {<<3, 3, 3, 3, 3>>, <<4, 3, 3, 3, 4>>}

\* blocksRef.current after the NUM_BLOCKS pushes: the draws explored.  Every block of
\* the first two draws falls on one of two spots; the third draw is a row of blocks
\* across the whole track.
BlockAt(x, y, size) == [x |-> Px(x), y |-> Px(y), size |-> Px(size)]
BlockDraws ==
    {[i \in 1..NUM_BLOCKS |-> IF i % 2 = 1 THEN BlockAt(305, 230, 60) ELSE BlockAt(90, 200, 70)],
     [i \in 1..NUM_BLOCKS |-> IF i % 2 = 1 THEN BlockAt(10, 290, 60) ELSE BlockAt(520, 240, 60)],
     [i \in 1..NUM_BLOCKS |-> BlockAt(59 * ((i - 1) % 10), 335, 60)]}

\* (Math.random() - 0.5) * 2 of an AI racer that dodges, and the occasional
\* (Math.random() - 0.5) * 3 (0 when Math.random() >= 0.02): the draws explored
DodgeDraws == {0}
JiggleDraws == {0}

NoRaceKeys == [left |-> FALSE, right |-> FALSE, up |-> FALSE, down |-> FALSE,
               boost |-> FALSE]
NoLoop == [lastTime |-> 0, boostActive |-> FALSE, boostStartTime |-> 0,
           boostCooldown |-> FALSE, startTime |-> 0]

NewPlayerRacer ==
    [x |-> Px(RACE_GAME_WIDTH) \div 2, y |-> Px(RACE_DISTANCE - RACER_SIZE - 20),
     size |-> Px(RACER_SIZE), speed |-> Px(RACER_SPEED), isAI |-> FALSE,
     eliminated |-> FALSE, name |-> "Player"]

NewAiRacers(speeds) ==
    [i \in 1..NUM_AI |->
        [x |-> (Px(RACE_GAME_WIDTH) * i) \div (NUM_AI + 1),
         y |-> Px(RACE_DISTANCE - RACER_SIZE - 20),
         size |-> Px(RACER_SIZE), speed |-> Px(speeds[i]), isAI |-> TRUE,
         eliminated |-> FALSE, name |-> aiNames[i]]]

Abs(v) == IF v < 0 THEN -v ELSE v

\* a variant of isColliding on the nominal boxes (no 70% shrink): C11_CollisionTests
\* rejects it
isColliding_Nominal(racer, block) ==
    LET reach == 10 * (racer.size + block.size)
        dx2 == (2 * racer.x + racer.size) - (2 * block.x + block.size)
        dy2 == (2 * racer.y + racer.size) - (2 * block.y + block.size)
    IN 10 * Abs(dx2) < reach /\ 10 * Abs(dy2) < reach

\* |racerCenter - blockCenter| < (racer.size * 0.7 + block.size * 0.7) / 2 on both
\* axes, each side multiplied by 20
isColliding(racer, block) ==
    LET reach == 7 * (racer.size + block.size)
        dx2 == (2 * racer.x + racer.size) - (2 * block.x + block.size)
        dy2 == (2 * racer.y + racer.size) - (2 * block.y + block.size)
    IN 10 * Abs(dx2) < reach /\ 10 * Abs(dy2) < reach

\* deltaTime * 60 || 1, with deltaTime = lastTime ? (timestamp - lastTime) / 1000 : 0
FrameFactor(lastTime, timestamp) ==
    LET f == IF lastTime # 0 THEN ((timestamp - lastTime) * 60) \div 1000 ELSE 0
    IN IF f = 0 THEN 1 ELSE f

\* speed *= BOOST_MULTIPLIER and speed /= BOOST_MULTIPLIER (1.8)
Boosted(speed) == (speed * 18) \div 10
Unboosted(speed) == (speed * 10) \div 18

\* a variant of updatePlayer whose down key moves at full speed: C17_HeldControls
\* rejects it
raceUpdatePlayer_DownFullSpeed(p, k, f) ==
    IF p.eliminated THEN p
    ELSE LET x1 == IF k.left THEN p.x - p.speed * f ELSE p.x
             x2 == IF k.right THEN x1 + p.speed * f ELSE x1
             y1 == IF k.up THEN p.y - p.speed * f ELSE p.y
             y2 == IF k.down THEN y1 + p.speed * f ELSE y1
         IN [p EXCEPT !.x = Max(0, Min(Px(RACE_GAME_WIDTH) - p.size, x2)),
                      !.y = Max(0, Min(Px(RACE_DISTANCE) - p.size, y2))]

raceUpdatePlayer(p, k, f) ==
    IF p.eliminated THEN p
    ELSE LET x1 == IF k.left THEN p.x - p.speed * f ELSE p.x
             x2 == IF k.right THEN x1 + p.speed * f ELSE x1
             y1 == IF k.up THEN p.y - p.speed * f ELSE p.y
             y2 == IF k.down THEN y1 + (p.speed * f * 7) \div 10 ELSE y1
         IN [p EXCEPT !.x = Max(0, Min(Px(RACE_GAME_WIDTH) - p.size, x2)),
                      !.y = Max(0, Min(Px(RACE_DISTANCE) - p.size, y2))]

\* the block updateAI's blocksRef.current.forEach leaves in closestBlock for an AI
\* racer at (x, y): 0 when none, else its index
RECURSIVE ClosestBlock(_, _, _, _, _)
ClosestBlock(ai, bs, i, best, bestDist2) ==
    IF i > Len(bs) THEN best
    ELSE LET dx == bs[i].x + bs[i].size \div 2 - (ai.x + ai.size \div 2)
             dy == bs[i].y - ai.y
             dist2 == dx * dx + dy * dy
         IN IF dy < 0 /\ dy > Px(-200) /\ Abs(dx) < Px(100)
               /\ (best = 0 \/ dist2 < bestDist2)
            THEN ClosestBlock(ai, bs, i + 1, i, dist2)
            ELSE ClosestBlock(ai, bs, i + 1, best, bestDist2)

\* one AI racer's step of updateAI; dodge and jiggle are the random terms
raceUpdateAI(ai, bs, f, dodge, jiggle) ==
    IF ai.eliminated THEN ai
    ELSE LET up == [ai EXCEPT !.y = ai.y - ai.speed * f]
             cb == ClosestBlock(up, bs, 1, 0, 0)
             dx == bs[cb].x + bs[cb].size \div 2 - (up.x + up.size \div 2)
             lateral == (IF cb = 0 THEN 0
                         ELSE (IF dx > 0 THEN -up.speed ELSE up.speed) + dodge) + jiggle
         IN [up EXCEPT !.x = Max(0, Min(Px(RACE_GAME_WIDTH) - up.size, up.x + lateral * f))]

\* a variant of checkCollisions that pushes a racer it eliminates back by its size:
\* C25_SameSnapshot rejects it
raceCollide_PushesBack(r, bs) ==
    IF ~r.eliminated /\ \E i \in 1..Len(bs) : isColliding(r, bs[i])
    THEN [r EXCEPT !.eliminated = TRUE, !.y = r.y + r.size]
    ELSE r

\* checkCollisions, for one racer
raceCollide(r, bs) ==
    IF ~r.eliminated /\ \E i \in 1..Len(bs) : isColliding(r, bs[i])
    THEN [r EXCEPT !.eliminated = TRUE]
    ELSE r

\* a variant of InsertByY that puts a racer before the racers of equal y (an unstable
\* sort): C14_FinishAndWinner rejects it
RECURSIVE InsertByY_BeforeEqual(_, _)
InsertByY_BeforeEqual(r, sorted) ==
    IF sorted = <<>> THEN <<r>>
    ELSE IF r.y <= Head(sorted).y THEN <<r>> \o sorted
    ELSE <<Head(sorted)>> \o InsertByY_BeforeEqual(r, Tail(sorted))

\* racers.sort((a, b) => a.y - b.y): a stable sort, by insertion
RECURSIVE InsertByY(_, _)
InsertByY(r, sorted) ==
    IF sorted = <<>> THEN <<r>>
    ELSE IF r.y < Head(sorted).y THEN <<r>> \o sorted
    ELSE <<Head(sorted)>> \o InsertByY(r, Tail(sorted))

RECURSIVE SortByY(_)
SortByY(rs) ==
    IF rs = <<>> THEN <<>>
    ELSE InsertByY(rs[Len(rs)], SortByY(SubSeq(rs, 1, Len(rs) - 1)))

\* checkWinCondition: the racers pushed, then sorted; id 0 is 'player', id i is ai-(i-1)
Contenders(p, ais) ==
    LET Running(r) == ~r.eliminated
        tagged == <<[id |-> 0, y |-> p.y, eliminated |-> p.eliminated]>>
                  \o [i \in 1..Len(ais) |-> [id |-> i, y |-> ais[i].y,
                                             eliminated |-> ais[i].eliminated]]
    IN SortByY(SelectSeq(tagged, Running))

\* a variant of PlayerPosition that counts positions from 1: C15_ScoreBands rejects it
PlayerPosition_FromOne(rs) ==
    IF \E i \in 1..Len(rs) : rs[i].id = 0
    THEN CHOOSE i \in 1..Len(rs) : rs[i].id = 0
    ELSE -1

\* racers.findIndex(r => r.id === 'player')
PlayerPosition(rs) ==
    IF \E i \in 1..Len(rs) : rs[i].id = 0
    THEN (CHOOSE i \in 1..Len(rs) : rs[i].id = 0) - 1
    ELSE -1

\* checkWinCondition: "none" while the race goes on, else the winner and the score
RaceResult(p, ais) ==
    LET rs == Contenders(p, ais)
        pos == PlayerPosition(rs)
    IN IF Len(rs) > 0 /\ rs[1].y <= Px(FINISH_LINE_Y)
       THEN IF rs[1].id = 0
            THEN [over |-> TRUE, winner |-> "You", score |-> WIN_SCORE]
            ELSE [over |-> TRUE, winner |-> ais[rs[1].id].name,
                  score |-> IF pos # -1 THEN Max(1, WIN_SCORE - pos) ELSE 0]
       ELSE IF Len(rs) = 0
            THEN [over |-> TRUE, winner |-> "No one", score |-> 0]
            ELSE [over |-> FALSE, winner |-> "null", score |-> 0]

\* the plain fill of gameLoop's game-over branch
raceGameOverFill == <<[kind |-> "fill", at |-> <<>>]>>

\* the render of one frame by renderGame, in drawing order, from the gradient fill
\* of the whole surface on (the stars, the planets and the finish line keep their
\* places; the camera is not modelled)
raceRenderGame ==
    <<[kind |-> "fill", at |-> <<>>], [kind |-> "stars", at |-> <<>>],
      [kind |-> "planets", at |-> <<>>], [kind |-> "finishLine", at |-> <<>>],
      [kind |-> "blocks", at |-> blocks], [kind |-> "aiRacers", at |-> aiRacers],
      [kind |-> "player", at |-> <<playerRacer>>],
      [kind |-> "boostBar", at |-> <<loop.boostActive, loop.boostCooldown>>]>>

----------------------------------------------------------------------------
(* SpaceJump: the actions *)

JumpIdle == view = "jump" /\ phase = "idle"

\* gameLoop is entered: by the registered frame callback, or by the effect body
\* right after a commit (phase "loop").  Runs updatePlayer .. updateEnemyBullets when
\* the captured gameOver is false.
JumpGameLoop ==
    /\ view = "jump"
    /\ (phase = "idle" /\ raf) \/ phase = "loop"
    /\ \E dt \in FrameDts :
        /\ now + dt <= MaxNow
        /\ now' = now + dt
        /\ raf' = FALSE
        /\ IF ~loopGameOver
           THEN LET p == [player EXCEPT !.x = MovePlayerX(player, keys)]
                    shoots == now' - lastPlayerShotTime > PLAYER_SHOOT_INTERVAL
                    bs == IF shoots THEN Append(bullets, PlayerBullet(p)) ELSE bullets
                IN /\ player' = p
                   /\ lastPlayerShotTime' = IF shoots THEN now' ELSE lastPlayerShotTime
                   /\ enemies' = updateEnemies(enemies, now')
                   /\ asteroids' = updateFalling(asteroids)
                   /\ coins' = updateFalling(coins)
                   /\ bullets' = updateBullets(bs)
                   /\ enemyBullets' = updateFalling(enemyBullets \o ShotsOf(enemies, now'))
                   /\ phase' = "collide"
           ELSE /\ phase' = "render"
                /\ UNCHANGED <<jumpRefs, lastPlayerShotTime>>
    /\ UNCHANGED <<view, score, gameOver, loopGameOver, keys, lastEnemySpawn,
                   lastAsteroidSpawn, lastCoinSpawn, canvas, keyEvents,
                   raceVars>>
    /\ UNCHANGED pageVars

JumpCheckCollisions ==
    /\ view = "jump" /\ phase = "collide"
    /\ LET kept == CoinsKept(player, coins)
           r == BulletHits(enemies, bullets, score + COIN_SCORE * CoinsTaken(player, coins))
       IN /\ gameOver' = (gameOver \/ PlayerHit(player, enemies, asteroids, enemyBullets))
          /\ coins' = kept
          /\ enemies' = r.enemies
          /\ bullets' = r.bullets
          /\ score' = r.score
    /\ phase' = "spawn"
    /\ UNCHANGED <<view, raf, now, loopGameOver, keys, player, asteroids, enemyBullets,
                   jumpTimes, canvas, keyEvents,
                   raceVars>>
    /\ UNCHANGED pageVars

\* a variant of spawnObjects that spawns nothing: C24_SpawnerRunsLast rejects it
JumpSpawnObjects_Nothing ==
    /\ view = "jump" /\ phase = "spawn"
    /\ phase' = "render"
    /\ UNCHANGED <<view, raf, now, score, gameOver, loopGameOver, keys, jumpRefs, jumpTimes,
                   canvas, keyEvents, raceVars>>
    /\ UNCHANGED pageVars

\* a variant of spawnObjects' test that also spawns when exactly the interval has
\* passed: C18_SpawnIntervals rejects it
SpawnDue_AtInterval(t, last, interval) == t - last >= interval

\* now - last.current > SPAWN_INTERVAL, the test of each category in spawnObjects
SpawnDue(t, last, interval) == t - last > interval

JumpSpawnObjects ==
    /\ view = "jump" /\ phase = "spawn"
    /\ LET se == SpawnDue(now, lastEnemySpawn, SPAWN_INTERVAL_ENEMY)
           sa == SpawnDue(now, lastAsteroidSpawn, SPAWN_INTERVAL_ASTEROID)
           sc == SpawnDue(now, lastCoinSpawn, SPAWN_INTERVAL_COIN)
       IN /\ \E x \in (IF se THEN EnemyXs ELSE {0}) :
                enemies' = IF se
                           THEN Append(enemies, [x |-> x, y |-> 0, size |-> Px(ENEMY_SIZE),
                                                 speed |-> Px(2), health |-> ENEMY_HEALTH,
                                                 lastShotTime |-> now])
                           ELSE enemies
          /\ \E x \in (IF sa THEN AsteroidXs ELSE {0}) :
                asteroids' = IF sa
                             THEN Append(asteroids, [x |-> x, y |-> 0,
                                                     size |-> Px(ASTEROID_SIZE), speed |-> Px(3)])
                             ELSE asteroids
          /\ \E x \in (IF sc THEN CoinXs ELSE {0}) :
                coins' = IF sc
                         THEN Append(coins, [x |-> x, y |-> 0, size |-> Px(COIN_SIZE),
                                             speed |-> Px(2)])
                         ELSE coins
          /\ lastEnemySpawn' = IF se THEN now ELSE lastEnemySpawn
          /\ lastAsteroidSpawn' = IF sa THEN now ELSE lastAsteroidSpawn
          /\ lastCoinSpawn' = IF sc THEN now ELSE lastCoinSpawn
    /\ phase' = "render"
    /\ UNCHANGED <<view, raf, now, score, gameOver, loopGameOver, keys, player, bullets,
                   enemyBullets, lastPlayerShotTime, canvas, keyEvents,
                   raceVars>>
    /\ UNCHANGED pageVars

\* a variant of JumpRenderGame that requests no further frame once the loop has seen
\* gameOver: C2_FramesPerGame rejects it
JumpRenderGame_StopsWhenOver ==
    /\ view = "jump" /\ phase = "render"
    /\ canvas' = renderGame
    /\ raf' = ~loopGameOver
    /\ phase' = "idle"
    /\ UNCHANGED <<view, now, score, gameOver, loopGameOver, keys, jumpRefs, jumpTimes,
                   keyEvents,
                   raceVars>>
    /\ UNCHANGED pageVars

\* renderGame(ctx), then requestAnimationFrame(gameLoop)
JumpRenderGame ==
    /\ view = "jump" /\ phase = "render"
    /\ canvas' = renderGame
    /\ raf' = TRUE
    /\ phase' = "idle"
    /\ UNCHANGED <<view, now, score, gameOver, loopGameOver, keys, jumpRefs, jumpTimes,
                   keyEvents,
                   raceVars>>
    /\ UNCHANGED pageVars

\* React re-renders after a queued setGameOver: the [gameOver] effect is cleaned up
\* (cancelAnimationFrame) and run again, and its body calls gameLoop()
JumpCommit ==
    /\ JumpIdle
    /\ gameOver # loopGameOver
    /\ loopGameOver' = gameOver
    /\ raf' = FALSE
    /\ phase' = "loop"
    /\ UNCHANGED <<view, now, score, gameOver, keys, jumpRefs, jumpTimes, canvas, keyEvents,
                   raceVars>>
    /\ UNCHANGED pageVars

JumpKeyDown ==
    /\ JumpIdle
    /\ keyEvents < MaxKeyEvents
    /\ keyEvents' = keyEvents + 1
    /\ \E k \in {"left", "right"} : keys' = [keys EXCEPT ![k] = TRUE]
    /\ UNCHANGED <<view, phase, raf, now, score, gameOver, loopGameOver, jumpRefs,
                   jumpTimes, canvas,
                   raceVars>>
    /\ UNCHANGED pageVars

\* handleKeyUp (the key may have been pressed before the page was shown)
JumpKeyUp ==
    /\ JumpIdle
    /\ keyEvents < MaxKeyEvents
    /\ keyEvents' = keyEvents + 1
    /\ \E k \in {"left", "right"} : keys' = [keys EXCEPT ![k] = FALSE]
    /\ UNCHANGED <<view, phase, raf, now, score, gameOver, loopGameOver, jumpRefs,
                   jumpTimes, canvas,
                   raceVars>>
    /\ UNCHANGED pageVars

\* a variant of JumpRestart that forgets the enemy bullets: C4_RestartResets rejects it
JumpRestart_KeepsEnemyBullets ==
    /\ JumpIdle
    /\ loopGameOver /\ gameOver
    /\ player' = [player EXCEPT !.x = Px(GAME_WIDTH) \div 2 - Px(PLAYER_SIZE) \div 2]
    /\ enemies' = <<>>
    /\ asteroids' = <<>>
    /\ coins' = <<>>
    /\ bullets' = <<>>
    /\ score' = 0
    /\ gameOver' = FALSE
    /\ loopGameOver' = FALSE
    /\ raf' = FALSE
    /\ phase' = "loop"
    /\ UNCHANGED <<view, now, keys, enemyBullets, jumpTimes, canvas, keyEvents,
                   raceVars>>
    /\ UNCHANGED pageVars

\* restartGame, the onClick of "Play Again" (rendered while the committed gameOver is
\* true); a click's updates are committed, effects included, before the next task
JumpRestart ==
    /\ JumpIdle
    /\ loopGameOver /\ gameOver
    /\ player' = [player EXCEPT !.x = Px(GAME_WIDTH) \div 2 - Px(PLAYER_SIZE) \div 2]
    /\ enemies' = <<>>
    /\ asteroids' = <<>>
    /\ coins' = <<>>
    /\ bullets' = <<>>
    /\ enemyBullets' = <<>>
    /\ score' = 0
    /\ gameOver' = FALSE
    /\ loopGameOver' = FALSE
    /\ raf' = FALSE
    /\ phase' = "loop"
    /\ UNCHANGED <<view, now, keys, jumpTimes, canvas, keyEvents,
                   raceVars>>
    /\ UNCHANGED pageVars

\* the route changes: the effects' cleanups run
JumpUnmount ==
    /\ JumpIdle
    /\ view' = "none"
    /\ raf' = FALSE
    /\ UNCHANGED <<phase, now, score, gameOver, loopGameOver, keys, jumpRefs, jumpTimes,
                   canvas, keyEvents,
                   raceVars>>
    /\ UNCHANGED pageVars

JumpNext ==
    \/ JumpGameLoop
    \/ JumpCheckCollisions
    \/ JumpSpawnObjects
    \/ JumpRenderGame
    \/ JumpCommit
    \/ JumpKeyDown
    \/ JumpKeyUp
    \/ JumpRestart
    \/ JumpUnmount

----------------------------------------------------------------------------
(* SpaceRace: the actions *)

RaceIdle == view = "race" /\ phase = "idle"

\* the state values the next render shows
Rendered == [isPlaying |-> isPlaying, gameOver |-> gameOver, countdown |-> countdown,
             darkMode |-> darkMode]

\* the game effect passes its early returns (the canvas exists while !gameOver)
Running(s) == s.isPlaying /\ s.countdown = NULL /\ ~s.gameOver
GameDeps(s) == <<s.isPlaying, s.gameOver, s.darkMode, s.countdown>>

Timer(kind, due) == [kind |-> kind, due |-> due, live |-> TRUE]
Without(ts, kinds) == {t \in ts : t.kind \notin kinds}
\* the cooldown timeouts of a closure that was replaced write that closure's local
Orphaned(ts) == {[t EXCEPT !.live = FALSE] : t \in ts}

\* A commit that renders n: the effects whose dependencies changed are cleaned up
\* and run again.  ts are the pending timers.
RaceEffects(n, ts) ==
    LET gameRerun == GameDeps(n) # GameDeps(committed)
        cdRerun == n.countdown # committed.countdown
        stop == gameRerun /\ Running(committed)
        start == gameRerun /\ Running(n)
        t1 == IF stop THEN Without(ts, {"gameTimer"}) ELSE ts
        t2 == IF cdRerun THEN Without(t1, {"countdown"}) ELSE t1
        t3 == IF start THEN Orphaned(t2) \cup {Timer("gameTimer", now + 1000)} ELSE t2
        t4 == t3 \cup (IF cdRerun /\ n.countdown # NULL
                       THEN {Timer("countdown", now + 1000)} ELSE {})
                 \cup (IF cdRerun /\ n.countdown = 0
                       THEN {Timer("go", now + 500)} ELSE {})
    IN /\ committed' = n
       /\ timers' = t4
       /\ raf' = IF start THEN TRUE ELSE IF stop THEN FALSE ELSE raf
       /\ IF start
          THEN /\ playerRacer' = NewPlayerRacer
               /\ \E speeds \in AiSpeedDraws : aiRacers' = NewAiRacers(speeds)
               /\ blocks' \in BlockDraws
               /\ loop' = [NoLoop EXCEPT !.startTime = now]
               /\ loopGameOver' = n.gameOver
          ELSE UNCHANGED <<raceRefs, loop, loopGameOver>>

\* gameLoop(timestamp), up to updateAI
RaceGameLoop ==
    /\ RaceIdle /\ raf
    /\ \E dt \in RaceFrameDts :
        /\ now + dt <= RaceMaxNow
        /\ \A t \in timers : t.due >= now + dt
        /\ now' = now + dt
    /\ raf' = FALSE
    /\ IF ~loopGameOver
       THEN LET f == FrameFactor(loop.lastTime, now')
                starts == keys.boost /\ ~loop.boostActive /\ ~loop.boostCooldown
                active1 == loop.boostActive \/ starts
                start1 == IF starts THEN now' ELSE loop.boostStartTime
                speed1 == IF starts THEN Boosted(playerRacer.speed) ELSE playerRacer.speed
                ends == active1 /\ now' - start1 > BOOST_DURATION
                speed2 == IF ends THEN Unboosted(speed1) ELSE speed1
            IN /\ loop' = [loop EXCEPT !.lastTime = now',
                                       !.boostActive = active1 /\ ~ends,
                                       !.boostStartTime = start1,
                                       !.boostCooldown = loop.boostCooldown \/ ends]
               /\ timers' = IF ends THEN timers \cup {Timer("cooldown", now' + BOOST_COOLDOWN)}
                            ELSE timers
               /\ playerRacer' = raceUpdatePlayer([playerRacer EXCEPT !.speed = speed2],
                                                  keys, f)
               /\ \E dodge \in DodgeDraws, jiggle \in JiggleDraws :
                     aiRacers' = [i \in 1..Len(aiRacers) |->
                                     raceUpdateAI(aiRacers[i], blocks, f, dodge, jiggle)]
               /\ phase' = "collide"
       ELSE /\ phase' = "render"
            /\ UNCHANGED <<loop, timers, playerRacer, aiRacers>>
    /\ UNCHANGED <<view, score, gameOver, loopGameOver, keys, jumpRefs, jumpTimes, canvas,
                   keyEvents, raceState, committed, blocks>>
    /\ UNCHANGED pageVars

RaceCheckCollisions ==
    /\ view = "race" /\ phase = "collide"
    /\ playerRacer' = raceCollide(playerRacer, blocks)
    /\ aiRacers' = [i \in 1..Len(aiRacers) |-> raceCollide(aiRacers[i], blocks)]
    /\ phase' = "win"
    /\ UNCHANGED <<view, raf, now, score, gameOver, loopGameOver, keys, jumpRefs, jumpTimes,
                   canvas, keyEvents, raceState, committed, blocks, loop, timers>>
    /\ UNCHANGED pageVars

RaceCheckWinCondition ==
    /\ view = "race" /\ phase = "win"
    /\ LET r == RaceResult(playerRacer, aiRacers)
       IN IF r.over
          THEN /\ winner' = r.winner
               /\ score' = r.score
               /\ gameOver' = TRUE
               /\ isPlaying' = FALSE
               /\ timers' = Without(timers, {"gameTimer"})
          ELSE UNCHANGED <<winner, score, gameOver, isPlaying, timers>>
    /\ phase' = "render"
    /\ UNCHANGED <<view, raf, now, loopGameOver, keys, jumpRefs, jumpTimes, canvas,
                   keyEvents, countdown, darkMode, gameTime, committed, raceRefs, loop>>
    /\ UNCHANGED pageVars

\* updateCamera and renderGame (or the fill of the game-over branch), then
\* requestAnimationFrame(gameLoop)
RaceRenderGame ==
    /\ view = "race" /\ phase = "render"
    /\ canvas' = IF ~loopGameOver THEN raceRenderGame ELSE raceGameOverFill
    /\ raf' = TRUE
    /\ phase' = "idle"
    /\ UNCHANGED <<view, now, score, gameOver, loopGameOver, keys, jumpRefs, jumpTimes,
                   keyEvents, raceVars>>
    /\ UNCHANGED pageVars

\* React re-renders after setState calls queued by a frame or a timer callback
RaceCommit ==
    /\ RaceIdle
    /\ Rendered # committed
    /\ RaceEffects(Rendered, timers)
    /\ UNCHANGED <<view, phase, now, score, gameOver, keys, jumpRefs, jumpTimes, canvas,
                   keyEvents, raceState>>
    /\ UNCHANGED pageVars

\* The pending timer that is due first fires.  While frames are being delivered it
\* fires between two of them; a timer is due long after the commit of the updates
\* queued before it.
RaceTimer ==
    /\ phase = "idle"
    /\ view = "none" \/ (view = "race" /\ Rendered = committed)
    /\ \E t \in timers :
        /\ \A u \in timers : t.due <= u.due
        /\ \/ ~raf
           \/ \E dt \in RaceFrameDts : t.due <= now + dt
        /\ now' = Max(now, t.due)
        /\ CASE t.kind = "countdown" ->
                  /\ countdown' = IF countdown # NULL /\ countdown > 0
                                  THEN countdown - 1 ELSE NULL
                  /\ timers' = (timers \ {t}) \cup {Timer("countdown", t.due + 1000)}
                  /\ UNCHANGED <<isPlaying, gameTime, loop>>
             [] t.kind = "go" ->
                  /\ isPlaying' = IF view = "race" THEN TRUE ELSE isPlaying
                  /\ countdown' = IF view = "race" THEN NULL ELSE countdown
                  /\ timers' = timers \ {t}
                  /\ UNCHANGED <<gameTime, loop>>
             [] t.kind = "gameTimer" ->
                  /\ gameTime' = (Max(now, t.due) - loop.startTime) \div 1000
                  /\ timers' = (timers \ {t}) \cup {Timer("gameTimer", t.due + 1000)}
                  /\ UNCHANGED <<isPlaying, countdown, loop>>
             [] t.kind = "cooldown" ->
                  /\ loop' = IF t.live THEN [loop EXCEPT !.boostCooldown = FALSE] ELSE loop
                  /\ timers' = timers \ {t}
                  /\ UNCHANGED <<isPlaying, countdown, gameTime>>
    /\ UNCHANGED <<view, phase, raf, score, gameOver, loopGameOver, keys, jumpRefs,
                   jumpTimes, canvas, keyEvents, winner, darkMode, committed, raceRefs>>
    /\ UNCHANGED pageVars

\* handleKeyDown, the flags of keys.current.  The flags are read by the frame
\* callback only: key events are explored while a race has a frame pending (a key
\* held from before the race is a key pressed before its first frame).
RaceKeyDown ==
    /\ RaceIdle /\ raf
    /\ keyEvents < MaxKeyEvents
    /\ keyEvents' = keyEvents + 1
    /\ \E k \in {"left", "right", "up", "down", "boost"} : keys' = [keys EXCEPT ![k] = TRUE]
    /\ UNCHANGED <<view, phase, raf, now, score, gameOver, loopGameOver, jumpRefs,
                   jumpTimes, canvas, raceVars>>
    /\ UNCHANGED pageVars

\* handleKeyUp (the key may have been pressed before the page was shown)
RaceKeyUp ==
    /\ RaceIdle /\ raf
    /\ keyEvents < MaxKeyEvents
    /\ keyEvents' = keyEvents + 1
    /\ \E k \in {"left", "right", "up", "down", "boost"} :
          keys' = [keys EXCEPT ![k] = FALSE]
    /\ UNCHANGED <<view, phase, raf, now, score, gameOver, loopGameOver, jumpRefs,
                   jumpTimes, canvas, raceVars>>
    /\ UNCHANGED pageVars

\* the space key, in handleKeyDown: setCountdown(3).  An input event's
\* updates are committed, effects included, before the next task.
RaceStart ==
    /\ RaceIdle
    /\ ~committed.isPlaying /\ ~committed.gameOver /\ committed.countdown = NULL
    /\ countdown' = 3
    /\ RaceEffects([Rendered EXCEPT !.countdown = 3], timers)
    /\ UNCHANGED <<view, phase, now, score, gameOver, keys, jumpRefs, jumpTimes, canvas,
                   keyEvents, isPlaying, winner, darkMode, gameTime>>
    /\ UNCHANGED pageVars

\* the onClick of "PRESS SPACE TO START": setCountdown(3).  The button is rendered
\* under {!isPlaying && !countdown && ...} in the branch of !gameOver, and
\* !countdown is also true of the countdown value 0 ("GO!")
RaceStartButton ==
    /\ RaceIdle
    /\ ~committed.gameOver /\ ~committed.isPlaying /\ committed.countdown \in {NULL, 0}
    /\ countdown' = 3
    /\ RaceEffects([Rendered EXCEPT !.countdown = 3], timers)
    /\ UNCHANGED <<view, phase, now, score, gameOver, keys, jumpRefs, jumpTimes, canvas,
                   keyEvents, isPlaying, winner, darkMode, gameTime>>
    /\ UNCHANGED pageVars

\* restartGame: the r key, or "PRESS R TO PLAY AGAIN", while gameOver is rendered
RaceRestart ==
    /\ RaceIdle
    /\ committed.gameOver
    /\ isPlaying' = FALSE
    /\ gameOver' = FALSE
    /\ winner' = "null"
    /\ score' = 0
    /\ gameTime' = 0
    /\ countdown' = NULL
    /\ RaceEffects([isPlaying |-> FALSE, gameOver |-> FALSE, countdown |-> NULL,
                    darkMode |-> darkMode], timers)
    /\ UNCHANGED <<view, phase, now, keys, jumpRefs, jumpTimes, canvas, keyEvents, darkMode>>
    /\ UNCHANGED pageVars

\* the theme button: setDarkMode(!darkMode)
RaceToggleTheme ==
    /\ RaceIdle
    /\ keyEvents < MaxKeyEvents
    /\ keyEvents' = keyEvents + 1
    /\ darkMode' = ~committed.darkMode
    /\ RaceEffects([Rendered EXCEPT !.darkMode = ~committed.darkMode], timers)
    /\ UNCHANGED <<view, phase, now, score, gameOver, keys, jumpRefs, jumpTimes,
                   canvas, isPlaying, countdown, winner, gameTime>>
    /\ UNCHANGED pageVars

\* the route changes: the effects' cleanups run (cancelAnimationFrame, clearInterval
\* of the game timer and of the countdown interval)
RaceUnmount ==
    /\ RaceIdle
    /\ view' = "none"
    /\ raf' = FALSE
    /\ timers' = Without(timers, {"countdown"} \cup
                                 (IF Running(committed) THEN {"gameTimer"} ELSE {}))
    /\ UNCHANGED <<phase, now, score, gameOver, loopGameOver, keys, jumpRefs, jumpTimes,
                   canvas, keyEvents, raceState, committed, raceRefs, loop>>
    /\ UNCHANGED pageVars

RaceNext ==
    \/ RaceGameLoop
    \/ RaceCheckCollisions
    \/ RaceCheckWinCondition
    \/ RaceRenderGame
    \/ RaceCommit
    \/ RaceTimer
    \/ RaceKeyDown
    \/ RaceKeyUp
    \/ RaceStart
    \/ RaceStartButton
    \/ RaceRestart
    \/ RaceToggleTheme
    \/ RaceUnmount

----------------------------------------------------------------------------
(* The call sites of the external endpoints.  page is the component that     *)
(* holds the call.  start tells who makes the request: "mount" an effect of  *)
(* the first render, "chained" the code that follows another request,        *)
(* "user" an event handler, "both" an effect and an event handler.           *)
(* onFailure is what the code around the awaited request does when the       *)
(* request fails: "message" a catch block stores an error message that the   *)
(* page renders, "logged" a catch block that only calls console.error,       *)
(* "rejected" no catch block, the promise of the handler rejects.            *)

\* Home, fetchInitialData: the picture of the day, then the articles of today
fetchApod == [page |-> "home", start |-> "mount", onFailure |-> "message"]
fetchArticles == [page |-> "home", start |-> "chained", onFailure |-> "message"]
fetchWeatherData == [page |-> "home", start |-> "chained", onFailure |-> "message"]
fetchLaunches == [page |-> "home", start |-> "mount", onFailure |-> "logged"]
handleSearch == [page |-> "home", start |-> "user", onFailure |-> "message"]
\* the message is the assistant's chat line 'Error processing request.'
sendMessage == [page |-> "home", start |-> "user", onFailure |-> "message"]
fetchQuestions == [page |-> "quiz", start |-> "mount", onFailure |-> "message"]
restartQuiz == [page |-> "quiz", start |-> "user", onFailure |-> "rejected"]
fetchCards == [page |-> "memory", start |-> "mount", onFailure |-> "message"]
fetchStats == [page |-> "stats", start |-> "mount", onFailure |-> "message"]
fetchMissions == [page |-> "missions", start |-> "mount", onFailure |-> "message"]
fetchAstronauts == [page |-> "astronauts", start |-> "both", onFailure |-> "logged"]
searchAstronautsFromBackend ==
    [page |-> "astronauts", start |-> "user", onFailure |-> "logged"]

CallSite ==
    [fetchApod |-> fetchApod, fetchArticles |-> fetchArticles,
     fetchWeatherData |-> fetchWeatherData, fetchLaunches |-> fetchLaunches,
     handleSearch |-> handleSearch, sendMessage |-> sendMessage,
     fetchQuestions |-> fetchQuestions, restartQuiz |-> restartQuiz,
     fetchCards |-> fetchCards, fetchStats |-> fetchStats,
     fetchMissions |-> fetchMissions, fetchAstronauts |-> fetchAstronauts,
     searchAstronautsFromBackend |-> searchAstronautsFromBackend]
Sites == DOMAIN CallSite
Pages == {CallSite[site].page : site \in Sites}

\* no request was made yet
NoCalls == [site \in Sites |-> "idle"]
\* localStorage of a first visit
NoStorage == [apod |-> "none", articles |-> "none", location |-> "none", stats |-> NULL]
\* the day-keyed entries apod_<today> and articles-<today>: missing, holding data that
\* passes the checks of loadCachedData, or holding data that fails them
CacheEntries == {"none", "valid", "invalid"}
\* the age in milliseconds of the stored nasaStats entry (NULL: no entry): the draws
ONE_HOUR == 60 * 60 * 1000
StatsAges == {NULL, 0, ONE_HOUR - 1, ONE_HOUR, ONE_HOUR + 1}

\* the state cells of Home as useState creates them: what the closures of the first
\* render, the mount effects among them, see
FirstRender ==
    [apod |-> "null", articles |-> "empty", locationPermissionStatus |-> "not_asked",
     weatherLoading |-> FALSE, weatherError |-> "",
     \* the getCurrentPosition call that is under way, by the path that made it, and
     \* err.code of the error the page reports (0: none)
     geo |-> "idle", geoError |-> 0]
\* the chat widget before the first message
NoChat == [messages |-> <<>>, inflight |-> {}, sent |-> 0, chatLoading |-> FALSE]
\* the messages the user sends in one visit: the bound of the model
MaxMessages == 2

\* !apod and !articles.length in the mount effect and in fetchInitialData, where cell
\* is the value the closure of the first render holds
Missing(cell) == cell \in {"null", "empty"}

\* a variant of the freshness test that still uses an entry exactly one hour old:
\* C23_StatsCache rejects it
StatsFresh_Inclusive(age) == age # NULL /\ age <= ONE_HOUR

\* stored && currentTime - storedTime < oneHourInMs
StatsFresh(age) == age # NULL /\ age < ONE_HOUR

\* the effect of the first render makes the request of the call site
MountRequests(site) ==
    CASE site = "fetchApod" ->
            /\ Missing(FirstRender.apod)
                  \/ Missing(FirstRender.articles)
            /\ Missing(FirstRender.apod)
      [] site = "fetchStats" -> ~StatsFresh(storage.stats)
      [] OTHER -> TRUE

\* the requests of the effects that run when the page is mounted
MountCalls(page) ==
    [site \in Sites |-> IF /\ CallSite[site].page = page
                           /\ CallSite[site].start \in {"mount", "both"}
                           /\ MountRequests(site)
                        THEN "pending" ELSE "idle"]

\* loadCachedData: the cells of Home after the mount effect has read the cache
LoadCached ==
    [FirstRender EXCEPT !.apod = IF storage.apod = "valid" THEN "cached" ELSE "null",
                        !.articles = IF storage.articles = "valid" THEN "cached" ELSE "empty"]

\* the effect that reads the saved permission status: with 'granted' saved it asks
\* for the position at once
MountHome ==
    IF storage.location = "granted"
    THEN [LoadCached EXCEPT !.locationPermissionStatus = "granted", !.geo = "auto"]
    ELSE LoadCached

\* Home shows its sections: loading is false (the articles have arrived, no search
\* is under way) and error is empty
HomeShown ==
    /\ calls.fetchArticles = "loaded"
    /\ calls.handleSearch \in {"idle", "loaded"}

\* the control that makes the request of a user call site is on the page and enabled
CanStart(site) ==
    /\ view = CallSite[site].page
    /\ CallSite[site].start \in {"user", "both"}
    /\ calls[site] # "pending"
    /\ CallSite[site].page = "home" => HomeShown
    /\ site = "restartQuiz" => calls.fetchQuestions = "loaded"

\* a request of the call site ends with the given outcome; fetchInitialData goes on
\* to the articles when the request for the picture of the day has ended
Settled(site, outcome) ==
    [s \in Sites |-> IF s = site THEN outcome
                     ELSE IF /\ s = "fetchArticles" /\ site = "fetchApod"
                             /\ Missing(FirstRender.articles)
                          THEN "pending"
                     ELSE calls[s]]

\* what the code after a fulfilled request stores in localStorage
Stored(site) ==
    CASE site = "fetchApod" -> [storage EXCEPT !.apod = "valid"]
      [] site = "fetchArticles" -> [storage EXCEPT !.articles = "valid"]
      [] site = "fetchStats" -> [storage EXCEPT !.stats = 0]
      [] site = "fetchWeatherData" /\ home.geo = "accept" ->
            [storage EXCEPT !.location = "granted"]
      [] OTHER -> storage

\* what the code after a fulfilled request sets in the cells of Home
Loaded(site) ==
    CASE site = "fetchApod" -> [home EXCEPT !.apod = "fetched"]
      [] site = "fetchArticles" -> [home EXCEPT !.articles = "fetched"]
      [] site = "fetchWeatherData" ->
            [home EXCEPT !.weatherLoading = FALSE, !.geo = "idle",
                         !.locationPermissionStatus =
                             IF home.geo = "accept" THEN "granted" ELSE @]
      [] OTHER -> home

\* what the code after a failed request sets in the cells of Home
Failed(site) ==
    CASE site = "fetchWeatherData" ->
            [home EXCEPT !.weatherLoading = FALSE, !.geo = "idle",
                         !.weatherError = "Failed to fetch",
                         !.locationPermissionStatus =
                             IF home.geo = "accept" THEN "error" ELSE @]
      [] OTHER -> home

\* renderWeatherContent shows the card with the Accept and the Deny button
CardShown ==
    /\ view = "home" /\ HomeShown
    /\ ~(home.locationPermissionStatus = "granted" /\ calls.fetchWeatherData = "loaded")
    /\ ~home.weatherLoading

\* GeolocationPositionError.code: PERMISSION_DENIED, POSITION_UNAVAILABLE, TIMEOUT
GeoErrorCodes == {1, 2, 3}

NoRacer == [x |-> 0, y |-> 0, size |-> 0, speed |-> 0, isAI |-> FALSE,
            eliminated |-> FALSE, name |-> "null"]

\* the refs and state cells as useRef / useState create them
InitCells ==
    /\ phase \in {"idle", "loop"}
    /\ raf = FALSE
    /\ now = StartNow
    /\ score = 0
    /\ gameOver = FALSE
    /\ loopGameOver = FALSE
    /\ player = InitPlayer
    /\ enemies = <<>> /\ asteroids = <<>> /\ coins = <<>>
    /\ bullets = <<>> /\ enemyBullets = <<>>
    /\ lastPlayerShotTime = 0 /\ lastEnemySpawn = 0
    /\ lastAsteroidSpawn = 0 /\ lastCoinSpawn = 0
    /\ canvas = <<>>
    /\ keyEvents = 0
    /\ isPlaying = FALSE
    /\ countdown = NULL
    /\ winner = "null"
    /\ darkMode = TRUE
    /\ gameTime = 0
    /\ committed = Rendered
    /\ playerRacer = NoRacer
    /\ aiRacers = <<>>
    /\ blocks = <<>>
    /\ loop = NoLoop
    /\ timers = {}

\* SpaceJump mounted: its [gameOver] effect is about to call gameLoop()
InitJump ==
    /\ InitCells /\ view = "jump" /\ phase = "loop" /\ keys = NoKeys
    /\ calls = NoCalls /\ storage = NoStorage /\ home = FirstRender /\ chat = NoChat

\* SpaceRace mounted: the start screen
InitRace ==
    /\ InitCells /\ view = "race" /\ phase = "idle" /\ keys = NoRaceKeys
    /\ calls = NoCalls /\ storage = NoStorage /\ home = FirstRender /\ chat = NoChat

Init == InitJump \/ InitRace
Next == JumpNext \/ RaceNext
Spec == Init /\ [][Next]_vars

----------------------------------------------------------------------------
(* Held controls: the games with direction keys pressed early and never released *)

\* key presses are explored until this time: after the first frame of SpaceJump,
\* on the start screen and in the first second of the countdown of SpaceRace
HoldUntil == StartNow + 500

\* handleKeyDown of SpaceJump, for a key that is not down yet
JumpHoldKey ==
    /\ JumpIdle
    /\ now <= HoldUntil
    /\ \E k \in {"left", "right"} : ~keys[k] /\ keys' = [keys EXCEPT ![k] = TRUE]
    /\ UNCHANGED <<view, phase, raf, now, score, gameOver, loopGameOver, jumpRefs,
                   jumpTimes, canvas, keyEvents, raceVars>>
    /\ UNCHANGED pageVars

\* handleKeyDown of SpaceRace, for a key that is not down yet
RaceHoldKey ==
    /\ RaceIdle
    /\ now <= HoldUntil
    /\ \E k \in {"left", "right", "up", "down", "boost"} :
          ~keys[k] /\ keys' = [keys EXCEPT ![k] = TRUE]
    /\ UNCHANGED <<view, phase, raf, now, score, gameOver, loopGameOver, jumpRefs,
                   jumpTimes, canvas, keyEvents, raceVars>>
    /\ UNCHANGED pageVars

HeldNext ==
    \/ JumpGameLoop
    \/ JumpCheckCollisions
    \/ JumpSpawnObjects
    \/ JumpRenderGame
    \/ JumpCommit
    \/ JumpHoldKey
    \/ RaceGameLoop
    \/ RaceCheckCollisions
    \/ RaceCheckWinCondition
    \/ RaceRenderGame
    \/ RaceCommit
    \/ RaceTimer
    \/ RaceStart
    \/ RaceHoldKey
    \/ RaceToggleTheme
HeldSpec == Init /\ [][HeldNext]_vars

----------------------------------------------------------------------------
(* The pages that call external endpoints *)

gameVars == <<phase, raf, now, score, gameOver, loopGameOver, keys, jumpRefs, jumpTimes,
              canvas, keyEvents, raceVars>>

\* an event handler makes a request
CallStart ==
    /\ \E site \in Sites \ {"sendMessage"} :
          CanStart(site) /\ calls' = [calls EXCEPT ![site] = "pending"]
    /\ UNCHANGED <<view, gameVars, storage, home, chat>>

\* the awaited request is fulfilled: the code after the await stores the data
CallSucceeds ==
    /\ view \in Pages
    /\ \E site \in Sites \ {"sendMessage"} :
          /\ calls[site] = "pending"
          /\ calls' = Settled(site, "loaded")
          /\ storage' = Stored(site)
          /\ home' = Loaded(site)
    /\ UNCHANGED <<view, gameVars, chat>>

\* the awaited request fails (the endpoint cannot be reached)
CallFails ==
    /\ view \in Pages
    /\ \E site \in Sites \ {"sendMessage"} :
          /\ calls[site] = "pending"
          /\ calls' = Settled(site, CallSite[site].onFailure)
          /\ home' = Failed(site)
    /\ UNCHANGED <<view, gameVars, storage, chat>>

\* the lines that message n adds to the chat: the one of the user and the one of the
\* assistant, which is the reply of the server or 'Error processing request.'
UserLine(n) == [role |-> "user", n |-> n, content |-> "text"]
AssistantLine(n, content) == [role |-> "assistant", n |-> n, content |-> content]

\* sendMessage up to its await, by Enter in the input field or by the send button,
\* which alone is disabled while chatLoading is set: the history is extended from the
\* chatMessages of the render that made the handler, and the request keeps them
SendMessage ==
    /\ view = "home" /\ HomeShown
    /\ chat.sent < MaxMessages
    /\ \E control \in {"Enter", "button"} : control = "button" => ~chat.chatLoading
    /\ chat' = [messages |-> Append(chat.messages, UserLine(chat.sent + 1)),
                inflight |-> chat.inflight
                               \cup {[base |-> chat.messages, n |-> chat.sent + 1]},
                sent |-> chat.sent + 1,
                chatLoading |-> TRUE]
    /\ calls' = [calls EXCEPT !.sendMessage = "pending"]
    /\ UNCHANGED <<view, gameVars, storage, home>>

\* sendMessage after its await, for a request that is fulfilled: the history is set
\* from the chatMessages the handler was made with
ChatReplies ==
    /\ view = "home"
    /\ \E r \in chat.inflight :
          chat' = [chat EXCEPT
                      !.messages = r.base \o <<UserLine(r.n), AssistantLine(r.n, "reply")>>,
                      !.inflight = @ \ {r},
                      !.chatLoading = FALSE]
    /\ calls' = [calls EXCEPT !.sendMessage = "loaded"]
    /\ UNCHANGED <<view, gameVars, storage, home>>

\* sendMessage after its await, for a request that fails
ChatFails ==
    /\ view = "home"
    /\ \E r \in chat.inflight :
          chat' = [chat EXCEPT
                      !.messages = r.base \o <<UserLine(r.n),
                                               AssistantLine(r.n, "Error processing request.")>>,
                      !.inflight = @ \ {r},
                      !.chatLoading = FALSE]
    /\ calls' = [calls EXCEPT !.sendMessage = sendMessage.onFailure]
    /\ UNCHANGED <<view, gameVars, storage, home>>

\* the Accept button: requestLocationPermission asks for the position (a click while
\* the request of the mount effect is under way is left out)
RequestLocation ==
    /\ CardShown /\ home.geo = "idle"
    /\ home' = [home EXCEPT !.weatherLoading = TRUE, !.weatherError = "",
                            !.geo = "accept", !.geoError = 0]
    /\ UNCHANGED <<view, gameVars, calls, storage, chat>>

\* the Deny button: denyLocationPermission
DenyLocation ==
    /\ CardShown
    /\ home' = [home EXCEPT !.locationPermissionStatus = "denied",
                            !.weatherError = "You need to accept",
                            !.weatherLoading = FALSE, !.geoError = 0]
    /\ UNCHANGED <<view, gameVars, calls, storage, chat>>

\* the success callback of getCurrentPosition: fetchWeatherData makes its request
GeoSuccess ==
    /\ view = "home" /\ home.geo # "idle" /\ calls.fetchWeatherData # "pending"
    /\ home' = [home EXCEPT !.weatherLoading = TRUE, !.weatherError = ""]
    /\ calls' = [calls EXCEPT !.fetchWeatherData = "pending"]
    /\ UNCHANGED <<view, gameVars, storage, chat>>

\* the error callback of getCurrentPosition: the one of requestLocationPermission
\* tells err.code 1 from the rest, the one of the mount effect does not
GeoError ==
    /\ view = "home" /\ home.geo # "idle" /\ calls.fetchWeatherData # "pending"
    /\ \E code \in GeoErrorCodes :
          home' = IF home.geo = "accept"
                  THEN [home EXCEPT !.locationPermissionStatus =
                                        IF code = 1 THEN "denied" ELSE "error",
                                    !.weatherError =
                                        IF code = 1 THEN "Location access was denied"
                                        ELSE "Unable to determine location",
                                    !.weatherLoading = FALSE,
                                    !.geo = "idle", !.geoError = code]
                  ELSE [home EXCEPT !.locationPermissionStatus = "error",
                                    !.weatherError = "Unable to determine location",
                                    !.geo = "idle", !.geoError = code]
    /\ UNCHANGED <<view, gameVars, calls, storage, chat>>

\* a page is mounted, with what earlier visits left in localStorage: its effects
\* have read the cache and made their requests
InitPages ==
    /\ InitCells /\ phase = "idle" /\ keys = NoKeys
    /\ view \in Pages
    /\ storage \in [apod : CacheEntries, articles : CacheEntries,
                    location : {"none", "granted"}, stats : StatsAges]
    /\ view # "home" => storage.apod = "none" /\ storage.articles = "none"
                            /\ storage.location = "none"
    /\ view # "stats" => storage.stats = NULL
    /\ calls = MountCalls(view)
    /\ home = IF view = "home" THEN MountHome ELSE FirstRender
    /\ chat = NoChat

PagesNext ==
    \/ CallStart \/ CallSucceeds \/ CallFails
    \/ RequestLocation \/ DenyLocation \/ GeoSuccess \/ GeoError
    \/ SendMessage \/ ChatReplies \/ ChatFails
PagesSpec == InitPages /\ [][PagesNext]_vars

----------------------------------------------------------------------------
(* Properties *)

\* the entity collections, positions, score and winner of both games
gameplay == <<jumpRefs, raceRefs, score, winner>>

\* restartGame is the one step that clears gameOver
RestartStep == gameOver /\ ~gameOver'

\* a frame callback (or the effect body) enters gameLoop
FrameStep == view # "none" /\ phase \in {"idle", "loop"} /\ phase' \in {"collide", "render"}

\* C1: from the step that sets game-over until an explicit restart, no step changes
\* an entity collection, a position, the score or the winner.  A frame that is
\* entered while gameOver is set, and any event between frames, leaves them alone.
C1_FrozenAfterGameOver ==
    [][(gameOver /\ gameOver' /\ phase \in {"idle", "loop"}) => UNCHANGED gameplay]_vars

written == <<gameplay, gameOver, loopGameOver, canvas, isPlaying, countdown, gameTime,
             loop, jumpTimes>>

\* C3: after the view is torn down no pending callback of the game writes state or
\* draws: the frame callback is cancelled, the key handlers are removed, the
\* once-per-second timer is cleared, and no other callback that writes is pending.
C3_NothingAfterTeardown ==
    [][view = "none" => UNCHANGED written]_vars

\* the racers and obstacles as a race's initialisation creates them
FreshRace ==
    /\ playerRacer = NewPlayerRacer
    /\ \E speeds \in AiSpeedDraws : aiRacers = NewAiRacers(speeds)
    /\ blocks \in BlockDraws
AnyEliminated ==
    playerRacer.eliminated \/ \E i \in 1..Len(aiRacers) : aiRacers[i].eliminated
NoEntities ==
    /\ enemies = <<>> /\ asteroids = <<>> /\ coins = <<>>
    /\ bullets = <<>> /\ enemyBullets = <<>>

JumpCollisionStep == view = "jump" /\ phase = "collide" /\ phase' = "spawn"

\* the bullets of bs (in bs order) that overlap enemy e
HitCount(e, bs) == Cardinality({i \in 1..Len(bs) : checkCollision(bs[i], e)})

\* enemy es[k] is still in the collection when bullet bs[i] is tested against it:
\* the bullets before bs[i] that overlap it have not used up its health
AliveFor(es, bs, k, i) ==
    Cardinality({j \in 1..(i - 1) : checkCollision(bs[j], es[k])}) < es[k].health

\* bullet bs[i] hits an enemy in this step
BulletConsumed(es, bs, i) ==
    \E k \in 1..Len(es) : checkCollision(bs[i], es[k]) /\ AliveFor(es, bs, k, i)

\* the subsequence of s at the indices that satisfy Keep
RECURSIVE KeepIndices(_, _, _)
KeepIndices(s, Keep(_), i) ==
    IF i > Len(s) THEN <<>>
    ELSE (IF Keep(i) THEN <<s[i]>> ELSE <<>>) \o KeepIndices(s, Keep, i + 1)

\* C5: in SpaceJump's collision step a player projectile is removed if and only if it
\* hit an enemy in that step, for any number of projectiles and hits in the frame.
C5_ConsumedBulletsRemoved ==
    [][JumpCollisionStep =>
         LET Unconsumed(i) == ~BulletConsumed(enemies, bullets, i)
         IN bullets' = KeepIndices(bullets, Unconsumed, 1)]_vars

\* the enemy e after the hits of this step: its health less one per hit
AfterHits(e) == [e EXCEPT !.health = e.health - HitCount(e, bullets)]
Survives(e) == e.health > 0
KilledNow == {k \in 1..Len(enemies) : HitCount(enemies[k], bullets) >= enemies[k].health}

\* C6: each player-projectile hit lowers the hit enemy's health by exactly 1; an enemy
\* whose health reaches 0 or below is absent from the collection after the step, and
\* the score rises by the kill increment 3 (larger than the coin increment 1) exactly
\* once for that enemy.
C6_HitsAndKills ==
    [][JumpCollisionStep =>
         /\ enemies' = SelectSeq(MapSeq(AfterHits, enemies), Survives)
         /\ score' - score - COIN_SCORE * (Len(coins) - Len(coins'))
               = KILL_SCORE * Cardinality(KilledNow)
         /\ KILL_SCORE = 3 /\ KILL_SCORE > COIN_SCORE]_vars

\* C6 witness: the second frame of a game, right after checkCollisions: a kill has
\* been scored (no coin can have reached the player yet)
C6_Witness ==
    /\ view = "jump" /\ phase = "spawn"
    /\ now = StartNow + 1000
    /\ score = KILL_SCORE /\ enemies = <<>>

OverlapsPlayer(o) == checkCollision(player, o)
ClearOfPlayer(o) == ~checkCollision(player, o)

\* C7: when the player overlaps a coin at the collision check, the score increases by
\* exactly 1 for that coin and the coin is gone after the step; the coins that do not
\* overlap the player are kept.
C7_CoinPickup ==
    [][JumpCollisionStep =>
         /\ coins' = SelectSeq(coins, ClearOfPlayer)
         /\ score' - score - KILL_SCORE * (Len(enemies) - Len(enemies'))
               = Len(SelectSeq(coins, OverlapsPlayer))
         /\ COIN_SCORE = 1]_vars

\* C7 witness: right after checkCollisions a coin has been picked up (the score is 1)
\* and another coin, clear of the player, is kept
C7_Witness ==
    /\ view = "jump" /\ phase = "spawn"
    /\ score = COIN_SCORE
    /\ coins # <<>>
    /\ \A i \in 1..Len(coins) : ClearOfPlayer(coins[i])

\* C8: within one game the score never decreases: only restart resets it.
C8_ScoreMonotone ==
    [][~RestartStep => score' >= score]_vars

\* a step of SpaceRace's checkCollisions
RaceCollisionStep == view = "race" /\ phase = "collide" /\ phase' = "win"

\* some obstacle of SpaceJump's checkCollisions overlaps the player
PlayerOverlapsHazard ==
    \/ \E i \in 1..Len(enemies) : checkCollision(player, enemies[i])
    \/ \E i \in 1..Len(asteroids) : checkCollision(player, asteroids[i])
    \/ \E i \in 1..Len(enemyBullets) : checkCollision(player, enemyBullets[i])
HitsABlock(r) == \E i \in 1..Len(blocks) : isColliding(r, blocks[i])

\* the scenario of the spec: player (100, 100, 60), obstacle (100, 100, 50)
ScenarioPlayer == [x |-> 100, y |-> 100, size |-> 60]
ScenarioObstacle == [x |-> 100, y |-> 100, size |-> 50]

\* C9: if at the collision check the player's box overlaps an obstacle's box, then
\* after the step game-over is true (SpaceJump: enemy, asteroid or enemy bullet) or
\* that racer is eliminated (SpaceRace: any racer and any block); the boxes of the
\* scenario (100, 100, 60) and (100, 100, 50) overlap under both tests.
C9_OverlapEndsGame ==
    [][/\ (JumpCollisionStep /\ PlayerOverlapsHazard) => gameOver'
       /\ RaceCollisionStep =>
            /\ HitsABlock(playerRacer) => playerRacer'.eliminated
            /\ \A i \in 1..Len(aiRacers) :
                  HitsABlock(aiRacers[i]) => aiRacers'[i].eliminated
       /\ checkCollision(ScenarioPlayer, ScenarioObstacle)
       /\ isColliding(ScenarioPlayer, ScenarioObstacle)]_vars

\* C9 witness: right after SpaceJump's checkCollisions, game-over has just been set
\* (the loop has not seen it yet) and an enemy bullet overlaps the player
C9_Witness ==
    /\ view = "jump" /\ phase = "spawn"
    /\ gameOver /\ ~loopGameOver
    /\ \E i \in 1..Len(enemyBullets) : checkCollision(player, enemyBullets[i])

\* the boxes of the entities of each game
Box(o) == [x |-> o.x, y |-> o.y, size |-> o.size]
Boxes(s) == {Box(s[i]) : i \in 1..Len(s)}
jumpBoxes == Boxes(<<player>> \o enemies \o asteroids \o coins \o bullets \o enemyBullets)
raceBoxes == Boxes(<<playerRacer>> \o aiRacers \o blocks)

\* C10: both collision tests are symmetric: whenever a game is about to check
\* collisions, for any two of its entities a and b, a overlaps b exactly when b
\* overlaps a.
C10_Symmetric ==
    phase = "collide" =>
       /\ \A a \in jumpBoxes : \A b \in jumpBoxes :
             checkCollision(a, b) <=> checkCollision(b, a)
       /\ \A a \in raceBoxes : \A b \in raceBoxes :
             isColliding(a, b) <=> isColliding(b, a)

\* C10 witness: at a collision check a bullet and an enemy overlap, in both orders,
\* while the player and some asteroid do not, in either order
C10_Witness ==
    /\ view = "jump" /\ phase = "collide"
    /\ \E i \in 1..Len(bullets), j \in 1..Len(enemies) :
          checkCollision(bullets[i], enemies[j]) /\ checkCollision(enemies[j], bullets[i])
    /\ \E i \in 1..Len(asteroids) :
          ~checkCollision(player, asteroids[i]) /\ ~checkCollision(asteroids[i], player)

\* the box of o shrunk to 70% of its size about its centre, in hundredths of o's unit
Shrunk(o) == [x |-> 100 * o.x + 15 * o.size, y |-> 100 * o.y + 15 * o.size,
              size |-> 70 * o.size]
raceRacers == <<playerRacer>> \o aiRacers

\* C11: SpaceJump's test is true exactly when a.x < b.x + b.size, a.x + a.size > b.x,
\* a.y < b.y + b.size and a.y + a.size > b.y on the nominal sizes; SpaceRace's test
\* is that box test on both boxes shrunk to 70% about their centres, i.e. true iff
\* |dx| and |dy| of the centres are both below 0.7 * (racer.size + block.size) / 2.
C11_CollisionTests ==
    phase = "collide" =>
       /\ \A a \in jumpBoxes : \A b \in jumpBoxes :
             checkCollision(a, b) <=>
                (a.x < b.x + b.size /\ a.x + a.size > b.x /\
                 a.y < b.y + b.size /\ a.y + a.size > b.y)
       /\ \A r \in raceBoxes : \A b \in raceBoxes :
             /\ isColliding(r, b) <=>
                   (Shrunk(r).x < Shrunk(b).x + Shrunk(b).size /\
                    Shrunk(r).x + Shrunk(r).size > Shrunk(b).x /\
                    Shrunk(r).y < Shrunk(b).y + Shrunk(b).size /\
                    Shrunk(r).y + Shrunk(r).size > Shrunk(b).y)
             /\ isColliding(r, b) <=>
                   (20 * Abs((2 * r.x + r.size) - (2 * b.x + b.size)) < 14 * (r.size + b.size) /\
                    20 * Abs((2 * r.y + r.size) - (2 * b.y + b.size)) < 14 * (r.size + b.size))

\* C11 witness: at a collision check of SpaceRace one racer is inside a block's
\* shrunk box, and another racer overlaps a block's nominal box but not its shrunk box
C11_Witness ==
    /\ view = "race" /\ phase = "collide"
    /\ \E i \in 1..Len(raceRacers), j \in 1..Len(blocks) :
          isColliding(raceRacers[i], blocks[j])
    /\ \E i \in 1..Len(raceRacers), j \in 1..Len(blocks) :
          checkCollision(raceRacers[i], blocks[j]) /\ ~isColliding(raceRacers[i], blocks[j])

CountdownTimers(ts) == {t \in ts : t.kind = "countdown"}

\* C12: a countdown started with value 3 displays exactly 3, 2, 1, GO (0), each one
\* second after the previous one, none skipped or repeated, and the game enters the
\* racing state only after GO.  As steps: the countdown value changes only from none
\* to 3, down by one when the one-second timer set at its display fires, or from GO
\* to none together with the start of the race; and isPlaying turns true only at GO.
C12_CountdownSequence ==
    [][view = "race" =>
         /\ countdown' # countdown =>
               \/ countdown = NULL /\ countdown' = 3
               \/ /\ countdown \in 1..3 /\ countdown' = countdown - 1
                  /\ \E t \in CountdownTimers(timers) : t.due = now'
               \/ countdown = 0 /\ countdown' = NULL /\ isPlaying'
         /\ \A t \in CountdownTimers(timers') \ CountdownTimers(timers) :
               t.due = now' + 1000 \/ countdown' # committed'.countdown
         /\ (~isPlaying /\ isPlaying') => countdown = 0]_vars

\* the four states of SpaceRace
PreStart == ~isPlaying /\ ~gameOver /\ countdown = NULL
CountingDown == ~isPlaying /\ ~gameOver /\ countdown # NULL
Racing == isPlaying /\ ~gameOver /\ countdown = NULL
Finished == ~isPlaying /\ gameOver /\ countdown = NULL
raceMode ==
    IF PreStart THEN "pre-start" ELSE IF CountingDown THEN "countdown"
    ELSE IF Racing THEN "racing" ELSE IF Finished THEN "finished" ELSE "none"

\* C13: SpaceRace is always in exactly one of pre-start, countdown, racing, finished;
\* its only transitions are pre-start -> countdown on a start action, countdown ->
\* racing, racing -> finished, and finished -> pre-start on a restart; a start
\* action (setCountdown(3)) outside pre-start and a restart outside finished change
\* nothing.
C13_RaceStateMachine ==
    [][view = "race" =>
         /\ raceMode # "none" /\ raceMode' # "none"
         /\ raceMode' # raceMode =>
               <<raceMode, raceMode'>> \in {<<"pre-start", "countdown">>,
                                            <<"countdown", "racing">>,
                                            <<"racing", "finished">>,
                                            <<"finished", "pre-start">>}
         /\ (countdown' = 3 /\ countdown # 3) => PreStart
         /\ RestartStep => (Finished /\ PreStart')]_vars

\* a step of SpaceRace's checkWinCondition
RaceWinStep == view = "race" /\ phase = "win" /\ phase' = "render"

\* the racers still in contention, as indices of raceRacers (1 is the player)
Live == {i \in 1..Len(raceRacers) : ~raceRacers[i].eliminated}
\* the leading racer: smallest y, and the first in insertion order among equal y
Leader ==
    CHOOSE i \in Live : \A j \in Live :
        \/ raceRacers[i].y < raceRacers[j].y
        \/ raceRacers[i].y = raceRacers[j].y /\ i <= j
Finishing == Live = {} \/ raceRacers[Leader].y <= Px(FINISH_LINE_Y)

\* C14: during racing, a frame ends the race iff after its updates the non-eliminated
\* racer with the smallest y is at or past the finish threshold or no racer remains;
\* the winner recorded is that leading racer, the first in insertion order (player,
\* then the AI racers by index) among racers of equal y, and "No one" when all are
\* eliminated.
C14_FinishAndWinner ==
    [][(RaceWinStep /\ ~gameOver) =>
         /\ (gameOver' /\ ~isPlaying') <=> Finishing
         /\ gameOver' <=> Finishing
         /\ Finishing =>
               winner' = IF Live = {} THEN "No one"
                         ELSE IF Leader = 1 THEN "You"
                         ELSE raceRacers[Leader].name
         /\ ~Finishing => winner' = winner]_vars

\* C14 witness: a race has just been finished (not yet committed) by two AI racers
\* level on y: the first of them, Orbiter, is the winner
C14_Witness ==
    /\ view = "race" /\ phase = "render"
    /\ gameOver /\ ~committed.gameOver
    /\ winner = "Orbiter"
    /\ ~aiRacers[2].eliminated /\ aiRacers[2].y = aiRacers[1].y

\* the player's placement: the racers in contention that are ahead of the player
Ahead == {i \in Live : raceRacers[i].y < playerRacer.y}

\* C15: the score recorded when a race finishes is 6 iff the player is the winner, is
\* 6 minus the placement (never below 1), so strictly lower for each worse placement,
\* for a player still in contention, and is 0 iff the player was eliminated.
C15_ScoreBands ==
    [][(RaceWinStep /\ Finishing) =>
         /\ score' = WIN_SCORE <=> winner' = "You"
         /\ score' = 0 <=> playerRacer.eliminated
         /\ ~playerRacer.eliminated =>
               /\ score' = Max(1, WIN_SCORE - Cardinality(Ahead))
               /\ score' >= 1
         /\ WIN_SCORE = 6]_vars

\* C15 witness: a race has just been finished by an AI racer with the player still in
\* contention behind it: the score is between 1 and 5
C15_Witness ==
    /\ view = "race" /\ phase = "render"
    /\ gameOver /\ ~committed.gameOver
    /\ winner \notin {"You", "No one", "null"}
    /\ ~playerRacer.eliminated
    /\ score \in 1..(WIN_SCORE - 1)

\* C16: elimination is one-way and does not end the race by itself: while the game
\* is in the racing state (the race is on screen and not finished), a racer whose
\* eliminated flag is true keeps it, keeps
\* its position, is never recorded as the winner, and the race goes on while another
\* racer remains short of the finish.
C16_EliminationOneWay ==
    [][(view = "race" /\ Running(committed) /\ isPlaying /\ ~gameOver) =>
         /\ \A i \in 1..Len(raceRacers) :
               raceRacers[i].eliminated =>
                  /\ raceRacers'[i].eliminated
                  /\ raceRacers'[i].x = raceRacers[i].x
                  /\ raceRacers'[i].y = raceRacers[i].y
                  /\ (winner' # winner /\ i > 1) => winner' # raceRacers[i].name
         /\ (winner' = "You" /\ winner # "You") => ~playerRacer.eliminated
         /\ (gameOver' /\ Live # {}) => raceRacers[Leader].y <= Px(FINISH_LINE_Y)]_vars

\* a frame's update step of either game (updatePlayer has run)
UpdateStep == view # "none" /\ phase \in {"idle", "loop"} /\ phase' = "collide"

\* what the held up and down keys of SpaceRace leave of one frame's move: the down
\* key gives back 7/10 of what the up key takes
UpDownDrift(speed, f) == speed * f - (speed * f * 7) \div 10

\* C17, as stated: when two opposite direction controls are held during an update
\* step (left+right in SpaceJump and SpaceRace, up+down in SpaceRace), the player's
\* coordinate on that axis is the same after the step as before it.
C17_OppositeControlsCancel ==
    [][UpdateStep =>
         /\ (view = "jump" /\ keys.left /\ keys.right) => player'.x = player.x
         /\ (view = "race" /\ keys.left /\ keys.right) => playerRacer'.x = playerRacer.x
         /\ (view = "race" /\ keys.up /\ keys.down) => playerRacer'.y = playerRacer.y]_vars

\* C17, amended: held left+right cancel in both games.  Held up+down do not cancel
\* in SpaceRace: a racer still in the race ends the step higher by 3/10 of a
\* frame's move (or at the top edge), because the down key moves at 0.7 times the
\* speed; an eliminated racer stays where it is.
C17_HeldControls ==
    [][UpdateStep =>
         /\ (view = "jump" /\ keys.left /\ keys.right) => player'.x = player.x
         /\ (view = "race" /\ keys.left /\ keys.right) => playerRacer'.x = playerRacer.x
         /\ (view = "race" /\ keys.up /\ keys.down) =>
               LET f == FrameFactor(loop.lastTime, now')
               IN IF playerRacer.eliminated
                  THEN playerRacer'.y = playerRacer.y
                  ELSE /\ playerRacer'.y =
                             Max(0, playerRacer.y - UpDownDrift(playerRacer'.speed, f))
                       /\ UpDownDrift(playerRacer'.speed, f) > 0]_vars

\* C17 witness: a frame of SpaceRace has just moved the player with all four
\* direction keys held: the player is on its starting column and above its starting
\* row
C17_Witness ==
    /\ view = "race" /\ phase = "collide"
    /\ keys.left /\ keys.right /\ keys.up /\ keys.down
    /\ ~playerRacer.eliminated
    /\ playerRacer.x = NewPlayerRacer.x
    /\ playerRacer.y < NewPlayerRacer.y

\* spawnObjects runs: the last step of a frame's update in SpaceJump
JumpSpawnStep == view = "jump" /\ phase = "spawn" /\ phase' = "render"

\* s2 is s with exactly one more entity at its end
OneAppended(s, s2) == Len(s2) = Len(s) + 1 /\ SubSeq(s2, 1, Len(s)) = s

\* C18, as stated: in SpaceJump, for each category (enemy, asteroid, coin), a
\* frame's update appends exactly one new entity and sets the category's last-spawn
\* timestamp to now if and only if now - last >= the category's interval (1500, 800,
\* 2000 ms); otherwise the collection gains no entity and the timestamp is unchanged.
C18_SpawnAtInterval ==
    [][JumpSpawnStep =>
         /\ IF now - lastEnemySpawn >= SPAWN_INTERVAL_ENEMY
            THEN OneAppended(enemies, enemies') /\ lastEnemySpawn' = now
            ELSE enemies' = enemies /\ lastEnemySpawn' = lastEnemySpawn
         /\ IF now - lastAsteroidSpawn >= SPAWN_INTERVAL_ASTEROID
            THEN OneAppended(asteroids, asteroids') /\ lastAsteroidSpawn' = now
            ELSE asteroids' = asteroids /\ lastAsteroidSpawn' = lastAsteroidSpawn
         /\ IF now - lastCoinSpawn >= SPAWN_INTERVAL_COIN
            THEN OneAppended(coins, coins') /\ lastCoinSpawn' = now
            ELSE coins' = coins /\ lastCoinSpawn' = lastCoinSpawn
         /\ SPAWN_INTERVAL_ENEMY = 1500 /\ SPAWN_INTERVAL_ASTEROID = 800
         /\ SPAWN_INTERVAL_COIN = 2000]_vars

\* C18, amended: the test is strict.  For each category the spawn step of a frame's
\* update appends exactly one new entity (at the top, y = 0) and sets the last-spawn
\* timestamp to now if and only if now - last > the category's interval; when
\* exactly the interval has passed, as when less has, nothing is appended and the
\* timestamp is unchanged.
C18_SpawnIntervals ==
    [][JumpSpawnStep =>
         /\ IF now - lastEnemySpawn > SPAWN_INTERVAL_ENEMY
            THEN /\ OneAppended(enemies, enemies') /\ lastEnemySpawn' = now
                 /\ enemies'[Len(enemies')].y = 0
            ELSE enemies' = enemies /\ lastEnemySpawn' = lastEnemySpawn
         /\ IF now - lastAsteroidSpawn > SPAWN_INTERVAL_ASTEROID
            THEN /\ OneAppended(asteroids, asteroids') /\ lastAsteroidSpawn' = now
                 /\ asteroids'[Len(asteroids')].y = 0
            ELSE asteroids' = asteroids /\ lastAsteroidSpawn' = lastAsteroidSpawn
         /\ IF now - lastCoinSpawn > SPAWN_INTERVAL_COIN
            THEN /\ OneAppended(coins, coins') /\ lastCoinSpawn' = now
                 /\ coins'[Len(coins')].y = 0
            ELSE coins' = coins /\ lastCoinSpawn' = lastCoinSpawn
         /\ SPAWN_INTERVAL_ENEMY = 1500 /\ SPAWN_INTERVAL_ASTEROID = 800
         /\ SPAWN_INTERVAL_COIN = 2000]_vars

\* C18 witness: spawnObjects has just run exactly one enemy interval after the last
\* enemy was spawned: an asteroid was spawned in this frame, an enemy was not
C18_Witness ==
    /\ view = "jump" /\ phase = "render"
    /\ now - lastEnemySpawn = SPAWN_INTERVAL_ENEMY
    /\ lastAsteroidSpawn = now
    /\ asteroids # <<>>

\* a frame's render: renderGame has drawn and the next frame is requested
RenderStep == view # "none" /\ phase = "render" /\ phase' = "idle"

\* the layers of obstacles and of the other non-player entities
NonPlayerKinds == {"enemies", "asteroids", "coins", "blocks", "aiRacers"}

\* the entities a drawing c shows in its layer of the given kind (none when the layer
\* is missing)
Shown(c, kind) ==
    IF \E i \in 1..Len(c) : c[i].kind = kind
    THEN c[CHOOSE i \in 1..Len(c) : c[i].kind = kind].at
    ELSE <<>>

\* C19: every frame's render clears the full drawing surface and then draws every
\* live entity at its current position in a fixed back-to-front order; in
\* particular the player is drawn after all obstacles and non-player entities.
C19_RenderOrder ==
    [][RenderStep =>
         /\ canvas'[1].kind \in {"clear", "fill"}
         /\ \A i \in 2..Len(canvas') : canvas'[i].kind \notin {"clear", "fill"}
         /\ Shown(canvas', "player") = <<IF view = "jump" THEN player ELSE playerRacer>>
         /\ view = "jump" =>
               /\ Shown(canvas', "enemies") = enemies
               /\ Shown(canvas', "asteroids") = asteroids
               /\ Shown(canvas', "coins") = coins
               /\ Shown(canvas', "bullets") = bullets
               /\ Shown(canvas', "enemyBullets") = enemyBullets
         /\ view = "race" =>
               /\ Shown(canvas', "blocks") = blocks
               /\ Shown(canvas', "aiRacers") = aiRacers
         /\ \A i, j \in 1..Len(canvas') :
               (canvas'[i].kind = "player" /\ canvas'[j].kind \in NonPlayerKinds) => j < i]_vars

\* C20: at every call site of an external endpoint a network failure is caught
\* locally and leaves the page showing an inline error message: no failed request
\* goes unhandled or is only logged.
C20_FailuresShown ==
    \A site \in Sites : calls[site] \notin {"logged", "rejected"}

\* a spawn of some category is due at the current time
SomeSpawnDue ==
    \/ now - lastEnemySpawn > SPAWN_INTERVAL_ENEMY
    \/ now - lastAsteroidSpawn > SPAWN_INTERVAL_ASTEROID
    \/ now - lastCoinSpawn > SPAWN_INTERVAL_COIN

\* the entity at the end of s, when its category was spawned at the current time,
\* is at the top of the field
NewAtTop(s, last) == (last = now /\ s # <<>>) => s[Len(s)].y = 0

\* C24, as stated: within one frame's update step the spawner runs first, before
\* the position updates, which precede collision detection: when the collisions of
\* a frame are tested, no spawn of that frame is still to come.
C24_SpawnerRunsFirst ==
    (view = "jump" /\ phase = "collide") => ~SomeSpawnDue

\* C24, amended: the spawner runs last in a frame's update step, after the
\* position updates and collision detection and before the render.  While the
\* collisions of a frame are tested nothing has been spawned in that frame; when
\* the frame is rendered every due spawn has been made and the entities spawned in
\* the frame are still at the top (y = 0), neither moved nor collision-tested.
C24_SpawnerRunsLast ==
    view = "jump" =>
       /\ phase \in {"collide", "spawn"} =>
             /\ lastEnemySpawn < now
             /\ lastAsteroidSpawn < now
             /\ lastCoinSpawn < now
       /\ (phase = "render" /\ ~loopGameOver) =>
             /\ ~SomeSpawnDue
             /\ NewAtTop(enemies, lastEnemySpawn)
             /\ NewAtTop(asteroids, lastAsteroidSpawn)
             /\ NewAtTop(coins, lastCoinSpawn)

\* C24 witness: a frame is about to be rendered with an asteroid spawned in it, still
\* at the top, behind an older asteroid that has moved
C24_Witness ==
    /\ view = "jump" /\ phase = "render" /\ ~loopGameOver
    /\ lastAsteroidSpawn = now
    /\ Len(asteroids) >= 2
    /\ asteroids[Len(asteroids)].y = 0
    /\ asteroids[1].y > 0

\* the places (x, y) of the entities of s
Places(s) == {<<s[i].x, s[i].y>> : i \in 1..Len(s)}
\* the eliminated flags of the racers, in insertion order
Flags(rs) == [i \in 1..Len(rs) |-> rs[i].eliminated]

\* C25: in every frame of both games all position updates of all categories are
\* complete before the first collision test, and no position changes between the
\* first and the last collision test of the frame.  The update step decides no
\* collision (no game over, no score, no elimination); the collision step moves
\* nothing: it only removes entities, lowers health and sets flags.
C25_SameSnapshot ==
    [][/\ (UpdateStep /\ view = "jump") => (gameOver' = gameOver /\ score' = score)
       /\ (UpdateStep /\ view = "race") =>
             /\ Flags(raceRacers') = Flags(raceRacers)
             /\ gameOver' = gameOver /\ winner' = winner
       /\ JumpCollisionStep =>
             /\ player' = player
             /\ asteroids' = asteroids /\ enemyBullets' = enemyBullets
             /\ Places(enemies') \subseteq Places(enemies)
             /\ Places(coins') \subseteq Places(coins)
             /\ Places(bullets') \subseteq Places(bullets)
       /\ RaceCollisionStep =>
             /\ blocks' = blocks
             /\ Len(raceRacers') = Len(raceRacers)
             /\ \A i \in 1..Len(raceRacers) :
                   /\ raceRacers'[i].x = raceRacers[i].x
                   /\ raceRacers'[i].y = raceRacers[i].y]_vars

\* C25 witness: the collision tests of a race frame have just eliminated the player
\* where this frame's update moved it, away from its starting place, while an AI
\* racer is still in the race
C25_Witness ==
    /\ view = "race" /\ phase = "win"
    /\ playerRacer.eliminated
    /\ <<playerRacer.x, playerRacer.y>> # <<NewPlayerRacer.x, NewPlayerRacer.y>>
    /\ \E i \in 1..Len(aiRacers) : ~aiRacers[i].eliminated
    /\ HitsABlock(playerRacer)

\* the step is part of a frame callback
InFrame == phase # "idle" \/ phase' # "idle"

\* C26: all arcade-game state is written only inside the frame callback or an input
\* event handler: the countdown, the start of the race after it, the end of the
\* boost cooldown and the elapsed race time advance only in a frame callback, never
\* in an independent timer callback.  (An input handler sets the countdown to 3; a
\* new run of the game effect starts with fresh boost state.)
C26_NoTimerWrites ==
    [][/\ (countdown # NULL /\ countdown' \notin {countdown, 3}) => InFrame
       /\ (~isPlaying /\ isPlaying') => InFrame
       /\ (loop'.startTime = loop.startTime /\ loop.boostCooldown /\ ~loop'.boostCooldown)
             => InFrame
       /\ gameTime' > gameTime => InFrame]_vars

\* C27: toggling the theme while a SpaceRace is in the racing state leaves the race
\* state unchanged: the racers' positions and eliminated flags, the obstacles, the
\* boost state and the elapsed race time are the same after the toggle as before.
C27_ThemeKeepsRace ==
    [][(view = "race" /\ Running(committed) /\ Racing /\ darkMode' # darkMode) =>
          /\ raceRefs' = raceRefs
          /\ loop' = loop
          /\ gameTime' = gameTime]_vars

\* a boost starts in this step
BoostStarts == ~loop.boostActive /\ loop'.boostActive
\* a cooldown that was started has not elapsed yet
CooldownPending == \E t \in timers : t.kind = "cooldown"

\* C30: in SpaceRace the boost can start only when it is neither active nor cooling
\* down; the player's speed is always either the base or the boosted value, boosted
\* exactly while the boost is active; and a new boost is impossible until the
\* cooldown has elapsed.
C30_BoostDiscipline ==
    [][view = "race" =>
         /\ BoostStarts => (~loop.boostCooldown /\ ~CooldownPending)
         /\ playerRacer' # NoRacer =>
               playerRacer'.speed =
                  IF loop'.boostActive THEN Boosted(Px(RACER_SPEED)) ELSE Px(RACER_SPEED)]_vars

\* the places of the racers, in insertion order
RacerPlaces(rs) == [i \in 1..Len(rs) |-> <<rs[i].x, rs[i].y>>]
\* the player holds no key
NoKeyHeld == \A k \in DOMAIN keys : ~keys[k]

\* C29: once a SpaceRace is in the racing state and frames keep firing, it
\* eventually reaches the finished state, for every behaviour of the player's keys:
\* the race cannot stay in racing forever.  In particular no frame of the racing
\* state with no key held leaves every racer where it was: such a frame repeats
\* unchanged for as long as the player holds no key.
C29_RaceAdvances ==
    [][(UpdateStep /\ view = "race" /\ Running(committed) /\ Racing /\ NoKeyHeld) =>
          RacerPlaces(raceRacers') # RacerPlaces(raceRacers)]_vars

\* C21: on Home, a cell that was filled from a valid cache entry of today is shown
\* without a request for it: the APOD and the articles request are made only when the
\* entry is missing or invalid.
C21_CacheAvoidsRequests ==
    view = "home" =>
        /\ home.apod = "cached" => calls.fetchApod = "idle"
        /\ home.articles = "cached" => calls.fetchArticles = "idle"

\* C23: on the statistics page a stored entry less than one hour old is used without
\* a request; the request is made exactly when there is no entry or the entry is one
\* hour old or older, and a fulfilled request replaces the entry and its timestamp.
C23_StatsCache ==
    view = "stats" =>
        /\ calls.fetchStats = "idle" => storage.stats \in 0..(ONE_HOUR - 1)
        /\ calls.fetchStats \in {"pending", "message"}
              => (storage.stats = NULL \/ storage.stats >= ONE_HOUR)
        /\ calls.fetchStats = "loaded" => storage.stats = 0
C23_Witness ==
    view = "stats" /\ storage.stats = ONE_HOUR /\ calls.fetchStats = "pending"

\* C22: every geolocation error, on the path of the Accept button and on the automatic
\* path of a saved 'granted' status alike, is classified: a denied permission (code 1)
\* gives the status 'denied' and the message of a denied access, any other error
\* gives the status 'error' and the message that the location cannot be determined.
C22_ErrorsClassified ==
    (view = "home" /\ home.geoError # 0) =>
        IF home.geoError = 1
        THEN /\ home.locationPermissionStatus = "denied"
             /\ home.weatherError = "Location access was denied"
        ELSE /\ home.locationPermissionStatus = "error"
             /\ home.weatherError = "Unable to determine location"

\* the lines of the history that message n has of the given role
LinesOf(role, n) ==
    {i \in 1..Len(chat.messages) : chat.messages[i].role = role /\ chat.messages[i].n = n}

\* C28: however the sends and the responses of the chat interleave, once every
\* request has ended the history holds every message of the user and exactly one
\* line of the assistant for each.
C28_ChatHistoryComplete ==
    (view = "home" /\ chat.inflight = {}) =>
        \A n \in 1..chat.sent :
            /\ Cardinality(LinesOf("user", n)) = 1
            /\ Cardinality(LinesOf("assistant", n)) = 1

====
